---- MODULE Spec2Model ----
(***************************************************************************)
(* A model of the iUSD collateralized-debt-position canister:              *)
(*   src/src/vault_system.rs  VaultController (positions, mint/repay, LTV) *)
(*   src/src/liquidation.rs   LiquidationController (seizure, config, log) *)
(*   src/src/price_feed.rs    fetch_prices (the aggregated price)          *)
(*   src/src/lib.rs           init (collateral ratios and minimums)        *)
(*                                                                         *)
(* Execution model.  The canister runs one message at a time; a handler    *)
(* runs without interruption up to its next `.await` on an inter-canister  *)
(* or HTTP call, and any other message may run while it is suspended.      *)
(* Each action below is one such uninterrupted stretch of one handler: it  *)
(* starts at the handler's entry or at the return of the call it awaited.  *)
(* `vault` in the handlers is a reference into the controller's map, so a  *)
(* field read after an await is the live value, while a value copied into  *)
(* a local before the await (remaining_collateral, the amount handed to    *)
(* get_collateral_value, collateral_to_seize) is the one of that moment.   *)
(*                                                                         *)
(* Units.  Collateral and iUSD amounts are counted in units of 10^8 base   *)
(* units (1 ICP, 1 iUSD); prices are whole dollars.  On these values the   *)
(* f64 operations of get_collateral_value (amount / 10^8, * price, * 10^8) *)
(* are exact.  The f64 product in execute_liquidation is not: it can fall  *)
(* one base unit short of a whole number of units, see f64 below.          *)
(* Amounts near 2^53 or 2^128 are outside the model, except for the        *)
(* wraparound of `debt_amount -= amount`, see u128 below.                  *)
(***************************************************************************)
EXTENDS Integers, Sequences, FiniteSets

(* ------------------------------ bounds -------------------------------- *)

\* the clock ic_cdk::api::time() stops advancing here
MaxTime == 1
\* liquidations are not attempted once the log holds this many events
MaxEvents == 1
\* add_liquidator is not called once the whitelist is this long
MaxLiquidators == 1
\* deposits are not made beyond this collateral amount
MaxCollateral == 10

(* ------------------------------ inputs -------------------------------- *)

Calls == {1, 2}

CollateralTypes == {"ICP"}

\* create_vault takes any String as owner; mint and repay parse it later
Owners == {"owner", "not-a-principal"}

\* ic_cdk::id(), and the callers of the liquidation endpoints
CanisterId == "canister"
LiquidationCallers == {"liquidator", "stranger"}
AdminCallers == {CanisterId, "stranger"}

Prices == {5, 10}

DepositAmounts == {5, 10}
WithdrawAmounts == {10, 20}
MintAmounts == {40}
RepayAmounts == {40}
DebtToCover == {60, 80, 100}

(* ----------------------- u128 and its wraparound ---------------------- *)
(* A u128 x is held as x when x < 2^127 and as x - 2^128 otherwise, so    *)
(* Integers' +, - and * are the wrapping operations of the source and a   *)
(* negative number is a value that has wrapped below zero.                *)

\* a < b on u128
ULt(a, b) == IF (a < 0) = (b < 0) THEN a < b ELSE b < 0

\* a > b on u128
UGt(a, b) == ULt(b, a)

\* a + b leaves u128: two values of 2^127 or more always do, one of them
\* and a small value do when the sum passes 2^128
AddOverflows(a, b) ==
    IF a < 0 /\ b < 0 THEN TRUE ELSE (a < 0 \/ b < 0) /\ a + b >= 0

\* a - b leaves u128
SubOverflows(a, b) == ULt(a, b)

\* a * k leaves u128 (k > 1 is small)
MulOverflows(a, k) == a < 0

\* The build decides what an overflowing operation does: with overflow
\* checks it panics, which traps the message and rolls its changes back;
\* without them it wraps.
OverflowModes(overflows) == IF overflows THEN {"wrap", "trap"} ELSE {"exact"}

(* ------------------------- u128 at full width ------------------------- *)
(* Where a product has to wrap at 2^128 exactly, a u128 is held in base   *)
(* units as its eight 16-bit limbs, the least significant first.          *)

Limb == 65536

Limbs == 8

\* the u128 of a small number
u128_from(n) ==
    [i \in 1..Limbs |-> IF i = 1 THEN n % Limb ELSE IF i = 2 THEN n \div Limb ELSE 0]

\* u128::MAX
u128_MAX == [i \in 1..Limbs |-> Limb - 1]

\* x * 2^(16 * n), for building amounts
u128_shl(x, n) == [i \in 1..Limbs |-> IF i > n THEN x[i - n] ELSE 0]

\* the carry out of limb i of x * k
RECURSIVE MulCarry(_, _, _)
MulCarry(x, k, i) ==
    IF i = 0 THEN 0 ELSE (x[i] * k + MulCarry(x, k, i - 1)) \div Limb

\* x * k for k < 2^15: the wrapped product, and whether it left u128
u128_mul(x, k) ==
    [value |-> [i \in 1..Limbs |-> (x[i] * k + MulCarry(x, k, i - 1)) % Limb],
     overflow |-> MulCarry(x, k, Limbs) > 0]

\* what limbs above i leave to limb i in the long division x / k
RECURSIVE DivRem(_, _, _)
DivRem(x, k, i) ==
    IF i > Limbs THEN 0 ELSE (DivRem(x, k, i + 1) * Limb + x[i]) % k

\* x / k for 0 < k < 2^15
u128_div(x, k) ==
    [i \in 1..Limbs |-> (DivRem(x, k, i + 1) * Limb + x[i]) \div k]

\* x > y
u128_gt(x, y) ==
    \E i \in 1..Limbs :
        /\ x[i] > y[i]
        /\ \A j \in (i + 1)..Limbs : x[j] = y[j]

Range(s) == {s[i] : i \in 1..Len(s)}

(* -------------------------------- f64 --------------------------------- *)
(* execute_liquidation computes                                           *)
(*     bonus_multiplier    = (10000 + liquidation_bonus) as f64 / 10000.0 *)
(*     collateral_to_seize = (debt_to_cover as f64 * bonus_multiplier)    *)
(*                               as u128                                  *)
(* in IEEE-754 binary64, each operation rounded to the nearest of the 53- *)
(* bit significands.  With n = 10000 + liquidation_bonus < 20000 the      *)
(* quotient n / 10000 lies in [1, 2), where neighbouring doubles are      *)
(* 2^-52 apart.  10000 = 2^4 * 625, so n / 10000 = (n * 2^48 / 625) *     *)
(* 2^-52 and the division leaves the remainder rho = n * 2^48 mod 625:    *)
(* the multiplier is n / 10000 - rho / 625 * 2^-52 when 2 * rho < 625 and *)
(* n / 10000 + (625 - rho) / 625 * 2^-52 otherwise (625 is odd: no tie).  *)
(* For debt_to_cover of k units (k * 10^8 base units, exact as an f64)    *)
(* with k * n divisible by 10000 the true product K = k * n * 10^4 base   *)
(* units is a whole number, and the product with the rounded multiplier   *)
(* is K + k * 10^8 * err.  When err >= 0 it rounds into [K, K + 1) and    *)
(* the cast gives K.  When err < 0 it is K - d with d = k * rho * 625 /   *)
(* 2^44 < 1; with 2^q <= K < 2^(q+1) the doubles next to K are 2^(q-52)   *)
(* apart (K has the factor 625 and is no power of two), so K - d rounds   *)
(* back to K iff d < 2^(q-53), that is k * rho * 625 < 2^(q-9) (equality  *)
(* is impossible, again by the factor 625); otherwise it rounds below K   *)
(* and the cast truncates to K - 1.                                       *)
(* The u128 that results is held as [units, less]: `units` whole units    *)
(* less `less` base units.                                                *)

RECURSIVE PowMod(_, _, _)
PowMod(b, e, m) == IF e = 0 THEN 1 % m ELSE (b * PowMod(b, e - 1, m)) % m

RECURSIVE Log2(_)
Log2(n) == IF n < 2 THEN 0 ELSE 1 + Log2(n \div 2)

\* a whole number of units as such a u128
Whole(units) == [units |-> units, less |-> 0]

\* a > bound and a < bound on u128, bound a whole number of units
AmountGt(a, bound) == a.units > bound
AmountLt(a, bound) == a.units < bound \/ (a.units = bound /\ a.less > 0)

(* -------------------------- configuration ----------------------------- *)

LtvRatioBps == 7500

MinCollateralICP == 10

collateral_ratios == [ct \in CollateralTypes |-> LtvRatioBps]

min_collateral == [ct \in CollateralTypes |-> MinCollateralICP]

IusdDecimals == 8

decimals(collateral_type) == 8

RECURSIVE Pow10(_)
Pow10(n) == IF n = 0 THEN 1 ELSE 10 * Pow10(n - 1)

DefaultConfig ==
    [liquidation_bonus |-> 0, max_liquidation_amount |-> 0,
     min_liquidation_amount |-> 0, liquidators |-> <<>>]

\* the configurations an admin installs in the model
NewConfigs ==
    {[liquidation_bonus |-> 1500, max_liquidation_amount |-> 92,
      min_liquidation_amount |-> 69, liquidators |-> <<"liquidator">>]}

(* ------------------------------ state --------------------------------- *)

VARIABLES
    vaults,         \* VaultController.vaults: vault_id -> Vault
    next_vault_id,  \* VaultController.next_vault_id
    config,         \* LiquidationController.config
    events,         \* LiquidationController.events
    calls,          \* the update calls in progress or just answered
    price,          \* the price the sources currently agree on
    now             \* ic_cdk::api::time()

vars == <<vaults, next_vault_id, config, events, calls, price, now>>

IdleCall ==
    [pc |-> "idle", op |-> "none", vault_id |-> 0, amount |-> 0,
     caller |-> "none", local |-> 0, collateral_to_seize |-> Whole(0),
     result |-> "none", ret |-> <<>>, ext |-> <<>>, price_read |-> 0,
     eligible |-> FALSE, quotes |-> <<>>]

Init ==
    /\ vaults = <<>>
    /\ next_vault_id = 0
    /\ config = DefaultConfig
    /\ events = <<>>
    /\ calls = [c \in Calls |-> IdleCall]
    /\ price \in Prices
    /\ now = 0

(* --------------------------- risk engine ------------------------------ *)

\* value of `amount` of collateral at price p, in iUSD units
\* a faulty conversion that takes the asset to have one decimal more; C19
\* tells it apart
get_collateral_value_tenth(collateral_type, amount, p) ==
    (amount * p * Pow10(IusdDecimals - decimals(collateral_type))) \div 10

get_collateral_value(collateral_type, amount, p) ==
    amount * p * Pow10(IusdDecimals - decimals(collateral_type))

max_debt(collateral_value, ratio) == (collateral_value * ratio) \div 10000

liquidation_threshold(ratio) == (ratio * 95) \div 100

is_liquidatable(v, p) ==
    UGt(v.debt_amount,
        max_debt(get_collateral_value(v.collateral_type, v.collateral_amount, p),
                 liquidation_threshold(collateral_ratios[v.collateral_type])))

(* The same computations on full-width amounts in base units, price p in  *)
(* whole dollars.  get_collateral_value works in f64:                     *)
(*     amount as f64 / 10^8 * price * 100_000_000.0, cast to u128.        *)
(* For an amount n * 2^j * 10^8 with n * p * 5^8 < 2^53 every step is     *)
(* exact (the quotient n * 2^j and both products are doubles), so the     *)
(* result is amount * p, and the cast saturates at u128::MAX.             *)
get_collateral_value_u128(collateral_type, amount, p) ==
    LET value_usd == u128_mul(amount, p) IN
    IF value_usd.overflow THEN u128_MAX ELSE value_usd.value

\* (collateral_value * liquidation_threshold) / 10000 as is_liquidatable
\* computes it, and whether the product left u128
max_debt_u128(collateral_value, threshold) ==
    LET product == u128_mul(collateral_value, threshold) IN
    [value |-> u128_div(product.value, 10000), overflow |-> product.overflow]

\* is_liquidatable's answer in a build that wraps, and whether its product
\* left u128
is_liquidatable_u128(v, p) ==
    LET limit == max_debt_u128(
                    get_collateral_value_u128(v.collateral_type, v.collateral_amount, p),
                    liquidation_threshold(collateral_ratios[v.collateral_type]))
    IN [liquidatable |-> u128_gt(v.debt_amount, limit.value),
        overflow |-> limit.overflow]

\* Principal::from_text(&vault.owner)
principal_from_text_ok(owner) == owner # "not-a-principal"

(* ----------------------------- oracle --------------------------------- *)

OracleErrors ==
    {"No valid prices received from any source",
     "Insufficient valid price sources",
     "Price deviation too high between sources"}

\* what fetch_prices can answer while the sources quote p
FetchOutcomes(p) ==
    {[ok |-> TRUE, price |-> p, err |-> "none"]}
    \cup {[ok |-> FALSE, price |-> 0, err |-> e] : e \in OracleErrors}

(* The endpoint get_price: fetch_prices and aggregate_prices as written.  *)
(* Prices are whole dollars, and even ones, so that the f64 average of    *)
(* two of them is a whole number; the f64 operations of aggregate_prices  *)
(* are then exact but for the division (p - median).abs() / median, whose *)
(* rounded quotient is compared with the double 0.05.  For whole p and    *)
(* median the true quotient is away from 1/20 by at least 1 / (20 *       *)
(* median), many times the spacing of doubles there, unless it is 1/20    *)
(* itself, and then the correctly rounded quotient is the double nearest  *)
(* to 1/20, which is the constant: quotient > 0.05 is 100 * |p - median|  *)
(* > 5 * median.                                                          *)

MAX_PRICE_AGE_SECONDS == 300

\* MAX_DEVIATION_THRESHOLD, in percent
MAX_DEVIATION_THRESHOLD == 5

\* SystemTime::now() at the time of the call, in seconds
SystemTimeNow == 1000

QuotePrices == {98, 100, 102, 104, 106, 110}

\* CoinGecko reports when its price was last updated: just now, 300 s ago,
\* 301 s ago, or one second ahead of this clock; the other two sources are
\* stamped with SystemTime::now() when they answer
Failed(source) == [source |-> source, ok |-> FALSE, price |-> 0, timestamp |-> 0]

CoinGeckoAnswers ==
    {Failed("coingecko")}
    \cup {[source |-> "coingecko", ok |-> TRUE, price |-> p, timestamp |-> t] :
             p \in QuotePrices,
             t \in {SystemTimeNow, SystemTimeNow - MAX_PRICE_AGE_SECONDS,
                    SystemTimeNow - MAX_PRICE_AGE_SECONDS - 1, SystemTimeNow + 1}}

StampedAnswers(source) ==
    {Failed(source)}
    \cup {[source |-> source, ok |-> TRUE, price |-> p, timestamp |-> SystemTimeNow] :
             p \in QuotePrices}

\* what the three spawned fetches can hand back, in the order of the handles
SourceAnswers ==
    {<<a, b, k>> : a \in CoinGeckoAnswers, b \in StampedAnswers("binance"),
                   k \in StampedAnswers("kraken")}

Err(e) ==
    [ok |-> FALSE, err |-> e, price |-> 0, timestamp |-> 0, sources_used |-> 0,
     max_deviation |-> [num |-> 0, den |-> 1]]

\* a faulty sort that leaves the values as they came; C16 tells it apart
sort_by_arrival(values) == values

\* price_values.sort_by(|a, b| a.partial_cmp(b).unwrap())
RECURSIVE sort_by(_)
sort_by(values) ==
    IF values = <<>> THEN <<>>
    ELSE LET x == Head(values)
             rest == sort_by(Tail(values))
         IN SelectSeq(rest, LAMBDA v : v < x) \o <<x>> \o SelectSeq(rest, LAMBDA v : v >= x)

median_price(price_values) ==
    LET n == Len(price_values) IN
    IF n % 2 = 0
    THEN (price_values[n \div 2] + price_values[n \div 2 + 1]) \div 2
    ELSE price_values[n \div 2 + 1]

Abs(x) == IF x < 0 THEN 0 - x ELSE x

\* the largest (p - median_price).abs() / median_price, kept as a fraction
max_deviation(price_values, median) ==
    LET devs == {Abs(price_values[i] - median) : i \in 1..Len(price_values)} IN
    [num |-> CHOOSE d \in devs : \A e \in devs : e <= d, den |-> median]

\* max_deviation > MAX_DEVIATION_THRESHOLD
deviation_too_high(deviation) ==
    100 * deviation.num > MAX_DEVIATION_THRESHOLD * deviation.den

\* current_time - p.timestamp leaves u64 for a time stamp ahead of the clock
age_overflows(prices, current_time) ==
    \E i \in 1..Len(prices) : prices[i].timestamp > current_time

\* the filter of aggregate_prices; a wrapped age is far above the limit
is_valid(p, current_time) ==
    /\ p.timestamp <= current_time
    /\ current_time - p.timestamp <= MAX_PRICE_AGE_SECONDS

aggregate_prices(prices, current_time) ==
    LET valid_prices == SelectSeq(prices, LAMBDA p : is_valid(p, current_time))
        price_values == sort_by([i \in 1..Len(valid_prices) |-> valid_prices[i].price])
        median == median_price(price_values)
        deviation == max_deviation(price_values, median)
    IN
    IF Len(valid_prices) < 2
    THEN Err("Insufficient valid price sources")
    ELSE IF deviation_too_high(deviation)
    THEN Err("Price deviation too high between sources")
    ELSE [ok |-> TRUE, err |-> "none", price |-> median, timestamp |-> current_time,
          sources_used |-> Len(valid_prices), max_deviation |-> deviation]

\* the quotes fetch_prices collects: a source that failed is left out
received(answers) == SelectSeq(answers, LAMBDA a : a.ok)

fetch_prices(answers, current_time) ==
    IF received(answers) = <<>>
    THEN Err("No valid prices received from any source")
    ELSE aggregate_prices(received(answers), current_time)

(* --------------------------- call plumbing ---------------------------- *)

\* ids handed to the handlers.  create_vault is called while it leaves one
\* of them unassigned, so "Vault not found" stays reachable.
VaultIds == {0, 1}

\* Answers are delivered one at a time: while a call's answer is waiting to
\* be picked up (Return) no handler runs.  Return touches nothing else, so
\* this only orders the observations.
NoAnswerWaiting == \A d \in Calls : calls[d].pc # "done"

\* the slot a new call takes: the lowest free one
FreeSlot(c) ==
    /\ NoAnswerWaiting
    /\ calls[c].pc = "idle"
    /\ \A d \in Calls : d < c => calls[d].pc # "idle"

\* call c is suspended at pc and the call it awaits returns now
ResumeAt(c, pc) == NoAnswerWaiting /\ calls[c].pc = pc

NewCall(op, vault_id, amount, caller) ==
    [IdleCall EXCEPT !.op = op, !.vault_id = vault_id, !.amount = amount,
                     !.caller = caller]

\* the handler returns res to its caller
Finish(rec, res) == [rec EXCEPT !.pc = "done", !.result = res]

\* the handler issues an external call and suspends at pc
Await(rec, pc, kind, amt) ==
    [rec EXCEPT !.pc = pc,
                !.ext = Append(@, [kind |-> kind, amount |-> amt, outcome |-> "pending"])]

\* the external call the handler is suspended on has returned
Resumed(rec, succeeded) ==
    [rec EXCEPT !.ext[Len(rec.ext)].outcome = IF succeeded THEN "ok" ELSE "failed"]

\* a panic traps the message: the call is rejected, nothing it wrote stays
Trap == "trap: arithmetic overflow"

(* --------------------------- environment ------------------------------ *)

Tick ==
    /\ NoAnswerWaiting
    /\ now < MaxTime
    /\ now' = now + 1
    /\ UNCHANGED <<vaults, next_vault_id, config, events, calls, price>>

PriceMove ==
    /\ NoAnswerWaiting
    /\ \E p \in Prices \ {price} : price' = p
    /\ UNCHANGED <<vaults, next_vault_id, config, events, calls, now>>

\* the caller has its answer; the slot is free again
Return(c) ==
    /\ calls[c].pc = "done"
    /\ calls' = [calls EXCEPT ![c] = IdleCall]
    /\ UNCHANGED <<vaults, next_vault_id, config, events, price, now>>

(* ----------------------------- get_price ------------------------------ *)

\* the endpoint get_price; it reads and writes nothing of the canister
get_price(c, answers) ==
    /\ FreeSlot(c)
    /\ LET rec == [NewCall("get_price", 0, 0, "none") EXCEPT !.quotes = answers] IN
       \E mode \in OverflowModes(age_overflows(received(answers), SystemTimeNow)) :
       LET r == fetch_prices(answers, SystemTimeNow) IN
       calls' = [calls EXCEPT ![c] =
          IF mode = "trap"
          THEN Finish(rec, Trap)
          ELSE IF r.ok
          THEN [Finish(rec, "Ok") EXCEPT !.ret = <<r>>]
          ELSE Finish(rec, r.err)]
    /\ UNCHANGED <<vaults, next_vault_id, config, events, price, now>>

(* get_price handle by handle.  fetch_prices awaits the three fetches in  *)
(* the order coingecko, binance, kraken and aggregates after the last.    *)
(* A fetch ends when its http_request ends: with the source's answer, or  *)
(* with the reject the system answers an outcall with when the remote     *)
(* does not (http_request maps it to Err, line 211), which fetch_prices   *)
(* drops like any other failure.  The code sets no timeout of its own.    *)
(* The wait for a reject is short against MAX_PRICE_AGE_SECONDS, so the   *)
(* quotes that came in meanwhile are aggregated at the age they had.      *)

\* a faulty await that hangs on a source that never answers; C28 tells it
\* apart
handle_resolves_on_answer(answer) == answer.ok

\* handle.await comes back for an answer and for a reject alike
handle_resolves(answer) == TRUE

\* get_price, entry to the await on the first handle; `answers` is what
\* the three fetches will come back with
get_price_begin(c, answers) ==
    /\ FreeSlot(c)
    /\ calls' = [calls EXCEPT ![c] =
          [NewCall("get_price", 0, 0, "none") EXCEPT !.pc = "price_sources",
                                                     !.quotes = answers]]
    /\ UNCHANGED <<vaults, next_vault_id, config, events, price, now>>

\* get_price, from one handle's completion to the await on the next, or
\* after the last to the return; local counts the handles awaited
get_price_handle(c) ==
    /\ ResumeAt(c, "price_sources")
    /\ handle_resolves(calls[c].quotes[calls[c].local + 1])
    /\ LET rec == [calls[c] EXCEPT !.local = @ + 1]
           answers == rec.quotes
       IN
       IF rec.local < Len(answers)
       THEN calls' = [calls EXCEPT ![c] = rec]
       ELSE \E mode \in OverflowModes(age_overflows(received(answers), SystemTimeNow)) :
            LET r == fetch_prices(answers, SystemTimeNow) IN
            calls' = [calls EXCEPT ![c] =
               IF mode = "trap"
               THEN Finish(rec, Trap)
               ELSE IF r.ok
               THEN [Finish(rec, "Ok") EXCEPT !.ret = <<r>>]
               ELSE Finish(rec, r.err)]
    /\ UNCHANGED <<vaults, next_vault_id, config, events, price, now>>

(* -------------------------- VaultController --------------------------- *)

\* a faulty commit that leaves the time stamp alone; C15 tells it apart
stamped_never(vault, t) == vault

\* vault.last_updated = ic_cdk::api::time()
stamped(vault, t) == [vault EXCEPT !.last_updated = t]

\* a faulty allocation that hands the same id out again; C23 tells it
\* apart
same_id(id) == id

\* self.next_vault_id += 1
following_id(id) == id + 1

create_vault_enter(c, owner, collateral_type) ==
    /\ FreeSlot(c)
    /\ vaults' = [id \in (DOMAIN vaults) \cup {next_vault_id} |->
                    IF id = next_vault_id
                    THEN [owner |-> owner, collateral_amount |-> 0,
                          collateral_type |-> collateral_type,
                          debt_amount |-> 0, last_updated |-> now]
                    ELSE vaults[id]]
    /\ next_vault_id' = following_id(next_vault_id)
    /\ calls' = [calls EXCEPT ![c] =
                    [Finish(NewCall("create_vault", next_vault_id, 0, "none"), "Ok")
                        EXCEPT !.ret = <<next_vault_id>>]]
    /\ UNCHANGED <<config, events, price, now>>

\* the same, called while it leaves one of VaultIds unassigned
create_vault(c, owner, collateral_type) ==
    /\ next_vault_id + 1 \in VaultIds
    /\ create_vault_enter(c, owner, collateral_type)

\* deposit_collateral's check of the asset's minimum
below_minimum(collateral_amount, amount, min_amount) ==
    ULt(collateral_amount + amount, min_amount)

deposit_collateral(c, vault_id, amount) ==
    /\ FreeSlot(c)
    /\ vault_id \in DOMAIN vaults =>
          vaults[vault_id].collateral_amount + amount \in 0..MaxCollateral
    /\ LET rec == NewCall("deposit_collateral", vault_id, amount, "none") IN
       IF vault_id \notin DOMAIN vaults
       THEN /\ calls' = [calls EXCEPT ![c] = Finish(rec, "Vault not found")]
            /\ UNCHANGED vaults
       ELSE LET vault == vaults[vault_id] IN
            \E mode \in OverflowModes(AddOverflows(vault.collateral_amount, amount)) :
            IF mode = "trap"
            THEN /\ calls' = [calls EXCEPT ![c] = Finish(rec, Trap)]
                 /\ UNCHANGED vaults
            ELSE IF below_minimum(vault.collateral_amount, amount,
                                  min_collateral[vault.collateral_type])
            THEN /\ calls' = [calls EXCEPT ![c] =
                        Finish(rec, "Amount below minimum collateral requirement")]
                 /\ UNCHANGED vaults
            ELSE /\ vaults' = [vaults EXCEPT ![vault_id] =
                        stamped([@ EXCEPT !.collateral_amount = @ + amount], now)]
                 /\ calls' = [calls EXCEPT ![c] = Finish(rec, "Ok")]
    /\ UNCHANGED <<next_vault_id, config, events, price, now>>

\* withdraw_collateral, entry to the await in get_collateral_value
withdraw_collateral_begin(c, vault_id, amount) ==
    /\ FreeSlot(c)
    /\ LET rec == NewCall("withdraw_collateral", vault_id, amount, "none") IN
       calls' = [calls EXCEPT ![c] =
          IF vault_id \notin DOMAIN vaults
          THEN Finish(rec, "Vault not found")
          ELSE IF vaults[vault_id].collateral_amount < amount
          THEN Finish(rec, "Insufficient collateral balance")
          ELSE Await([rec EXCEPT !.local = vaults[vault_id].collateral_amount - amount],
                     "withdraw_price", "fetch_prices", 0)]
    /\ UNCHANGED <<vaults, next_vault_id, config, events, price, now>>

\* withdraw_collateral's LTV check
withdraw_exceeds_ltv(debt_amount, limit) == UGt(debt_amount * 100, limit)

\* withdraw_collateral, from the price's arrival to the return
withdraw_collateral_price(c) ==
    /\ ResumeAt(c, "withdraw_price")
    /\ \E r \in FetchOutcomes(price) :
       LET rec == [Resumed(calls[c], r.ok) EXCEPT !.price_read = r.price]
           vault == vaults[rec.vault_id]
           collateral_value == get_collateral_value(vault.collateral_type, rec.local, r.price)
           limit == max_debt(collateral_value, collateral_ratios[vault.collateral_type])
       IN
       IF ~r.ok
       THEN /\ calls' = [calls EXCEPT ![c] = Finish(rec, r.err)]
            /\ UNCHANGED vaults
       ELSE \E mode \in OverflowModes(MulOverflows(vault.debt_amount, 100)) :
            IF mode = "trap"
            THEN /\ calls' = [calls EXCEPT ![c] = Finish(rec, Trap)]
                 /\ UNCHANGED vaults
            ELSE IF withdraw_exceeds_ltv(vault.debt_amount, limit)
            THEN /\ calls' = [calls EXCEPT ![c] =
                        Finish(rec, "Withdrawal would exceed maximum LTV")]
                 /\ UNCHANGED vaults
            ELSE /\ vaults' = [vaults EXCEPT ![rec.vault_id] =
                        stamped([@ EXCEPT !.collateral_amount = rec.local], now)]
                 /\ calls' = [calls EXCEPT ![c] = Finish(rec, "Ok")]
    /\ UNCHANGED <<next_vault_id, config, events, price, now>>

\* mint_iusd, entry to the await in get_collateral_value
mint_iusd_begin(c, vault_id, amount) ==
    /\ FreeSlot(c)
    /\ LET rec == NewCall("mint_iusd", vault_id, amount, "none") IN
       calls' = [calls EXCEPT ![c] =
          IF vault_id \notin DOMAIN vaults
          THEN Finish(rec, "Vault not found")
          ELSE Await([rec EXCEPT !.local = vaults[vault_id].collateral_amount],
                     "mint_price", "fetch_prices", 0)]
    /\ UNCHANGED <<vaults, next_vault_id, config, events, price, now>>

\* mint_iusd's LTV check
mint_exceeds_ltv(debt_amount, amount, limit) == UGt(debt_amount + amount, limit)

\* mint_iusd, from the price's arrival to the await on the ledger's mint
mint_iusd_price(c) ==
    /\ ResumeAt(c, "mint_price")
    /\ \E r \in FetchOutcomes(price) :
       LET rec == [Resumed(calls[c], r.ok) EXCEPT !.price_read = r.price]
           vault == vaults[rec.vault_id]
           collateral_value == get_collateral_value(vault.collateral_type, rec.local, r.price)
           limit == max_debt(collateral_value, collateral_ratios[vault.collateral_type])
       IN
       IF ~r.ok
       THEN calls' = [calls EXCEPT ![c] = Finish(rec, r.err)]
       ELSE \E mode \in OverflowModes(AddOverflows(vault.debt_amount, rec.amount)) :
            calls' = [calls EXCEPT ![c] =
               IF mode = "trap"
               THEN Finish(rec, Trap)
               ELSE IF mint_exceeds_ltv(vault.debt_amount, rec.amount, limit)
               THEN Finish(rec, "Mint would exceed maximum LTV")
               ELSE IF ~principal_from_text_ok(vault.owner)
               THEN Finish(rec, "Text must be in valid Base32 encoding.")
               ELSE Await([rec EXCEPT !.local = 0], "mint_ledger", "mint", rec.amount)]
    /\ UNCHANGED <<vaults, next_vault_id, config, events, price, now>>

\* mint_iusd, from the ledger's answer to the return
mint_iusd_ledger(c) ==
    /\ ResumeAt(c, "mint_ledger")
    /\ \E ok \in BOOLEAN :
       LET rec == Resumed(calls[c], ok)
           vault == vaults[rec.vault_id]
       IN
       IF ~ok
       THEN /\ calls' = [calls EXCEPT ![c] = Finish(rec, "Failed to mint iUSD")]
            /\ UNCHANGED vaults
       ELSE \E mode \in OverflowModes(AddOverflows(vault.debt_amount, rec.amount)) :
            IF mode = "trap"
            THEN /\ calls' = [calls EXCEPT ![c] = Finish(rec, Trap)]
                 /\ UNCHANGED vaults
            ELSE /\ vaults' = [vaults EXCEPT ![rec.vault_id] =
                        stamped([@ EXCEPT !.debt_amount = @ + rec.amount], now)]
                 /\ calls' = [calls EXCEPT ![c] = Finish(rec, "Ok")]
    /\ UNCHANGED <<next_vault_id, config, events, price, now>>

\* repay_debt, entry to the await on the ledger's burn
repay_debt_begin(c, vault_id, amount) ==
    /\ FreeSlot(c)
    \* a debt that has wrapped below zero is not repaid further
    /\ vault_id \in DOMAIN vaults => vaults[vault_id].debt_amount >= 0
    /\ LET rec == NewCall("repay_debt", vault_id, amount, "none") IN
       calls' = [calls EXCEPT ![c] =
          IF vault_id \notin DOMAIN vaults
          THEN Finish(rec, "Vault not found")
          ELSE IF ULt(vaults[vault_id].debt_amount, amount)
          THEN Finish(rec, "Repayment amount exceeds debt")
          ELSE IF ~principal_from_text_ok(vaults[vault_id].owner)
          THEN Finish(rec, "Text must be in valid Base32 encoding.")
          ELSE Await(rec, "repay_ledger", "burn", amount)]
    /\ UNCHANGED <<vaults, next_vault_id, config, events, price, now>>

\* repay_debt, from the ledger's answer to the return
repay_debt_ledger(c) ==
    /\ ResumeAt(c, "repay_ledger")
    /\ \E ok \in BOOLEAN :
       LET rec == Resumed(calls[c], ok)
           vault == vaults[rec.vault_id]
       IN
       IF ~ok
       THEN /\ calls' = [calls EXCEPT ![c] = Finish(rec, "Failed to burn iUSD")]
            /\ UNCHANGED vaults
       ELSE \E mode \in OverflowModes(SubOverflows(vault.debt_amount, rec.amount)) :
            IF mode = "trap"
            THEN /\ calls' = [calls EXCEPT ![c] = Finish(rec, Trap)]
                 /\ UNCHANGED vaults
            ELSE /\ vaults' = [vaults EXCEPT ![rec.vault_id] =
                        stamped([@ EXCEPT !.debt_amount = @ - rec.amount], now)]
                 /\ calls' = [calls EXCEPT ![c] = Finish(rec, "Ok")]
    /\ UNCHANGED <<next_vault_id, config, events, price, now>>

\* f64::INFINITY
Infinity == "inf"

\* (collateral_value as f64) / (vault.debt_amount as f64): the quotient is
\* kept as the pair it is the rounding of
health_factor(collateral_value, debt_amount) ==
    [num |-> collateral_value, den |-> debt_amount]

\* get_health_factor, entry to the await in get_collateral_value
get_health_factor_begin(c, vault_id) ==
    /\ FreeSlot(c)
    /\ LET rec == NewCall("get_health_factor", vault_id, 0, "none") IN
       calls' = [calls EXCEPT ![c] =
          IF vault_id \notin DOMAIN vaults
          THEN Finish(rec, "Vault not found")
          ELSE Await([rec EXCEPT !.local = vaults[vault_id].collateral_amount],
                     "health_price", "fetch_prices", 0)]
    /\ UNCHANGED <<vaults, next_vault_id, config, events, price, now>>

\* get_health_factor, from the price's arrival to the return
get_health_factor_price(c) ==
    /\ ResumeAt(c, "health_price")
    /\ \E r \in FetchOutcomes(price) :
       LET rec == [Resumed(calls[c], r.ok) EXCEPT !.price_read = r.price, !.local = 0]
           vault == vaults[rec.vault_id]
           collateral_value ==
               get_collateral_value(vault.collateral_type, calls[c].local, r.price)
       IN
       calls' = [calls EXCEPT ![c] =
          IF ~r.ok
          THEN Finish(rec, r.err)
          ELSE IF vault.debt_amount = 0
          THEN [Finish(rec, "Ok") EXCEPT !.ret = <<Infinity>>]
          ELSE [Finish(rec, "Ok") EXCEPT
                   !.ret = <<health_factor(collateral_value, vault.debt_amount)>>]]
    /\ UNCHANGED <<vaults, next_vault_id, config, events, price, now>>

(* ----------------------- LiquidationController ------------------------ *)

\* a faulty whitelist check that lets everyone in while the whitelist is
\* empty; C5 tells it apart
is_whitelisted_or_unset(caller, cfg) ==
    cfg.liquidators = <<>> \/ caller \in Range(cfg.liquidators)

\* execute_liquidation's whitelist check
is_whitelisted(caller, cfg) == caller \in Range(cfg.liquidators)

\* execute_liquidation's rejection of a vault that is not liquidatable
rejects_not_liquidatable(liquidatable) == ~liquidatable

\* (10000 + liquidation_bonus) as f64 / 10000.0: the ratio n / 10000 and
\* what rounding adds to it, in units of 2^-52 / 625
bonus_multiplier(liquidation_bonus) ==
    LET n == 10000 + liquidation_bonus
        rho == ((n % 625) * PowMod(2, 48, 625)) % 625
    IN [n |-> n, err |-> IF 2 * rho < 625 THEN 0 - rho ELSE 625 - rho]

\* (debt_to_cover as f64 * bonus_multiplier) as u128
collateral_to_seize(debt_to_cover, liquidation_bonus) ==
    LET m == bonus_multiplier(liquidation_bonus)
        q == 4 + Log2(debt_to_cover * m.n * 625)
        falls_short == /\ debt_to_cover > 0
                       /\ m.err < 0
                       /\ debt_to_cover * (0 - m.err) * 625 > 2^(q - 9)
    IN [units |-> (debt_to_cover * m.n) \div 10000,
        less |-> IF falls_short THEN 1 ELSE 0]

\* execute_liquidation's bounds check
invalid_liquidation_amount(seize, cfg) ==
    \/ AmountGt(seize, cfg.max_liquidation_amount)
    \/ AmountLt(seize, cfg.min_liquidation_amount)

\* a faulty settlement that goes on after a failed iUSD transfer; C7 tells
\* it apart
debt_transfer_never_aborts(succeeded) == FALSE

\* the error of a failed iUSD transfer, without the reject code and message
iusd_transfer_error == "Failed to transfer iUSD"

\* a faulty error that repeats the iUSD transfer's; C25 tells it apart
collateral_transfer_error_same == "Failed to transfer iUSD"

\* the error of a failed collateral transfer, likewise
collateral_transfer_error == "Failed to transfer collateral"

\* the `?` on transfer_iusd_to_protocol
debt_transfer_aborts(succeeded) == ~succeeded

\* a faulty settlement that goes on after a failed collateral transfer; C27
\* tells it apart
collateral_transfer_never_aborts(succeeded) == FALSE

\* the `?` on transfer_collateral_to_liquidator
collateral_transfer_aborts(succeeded) == ~succeeded

\* a faulty log that puts the newest event first; C22 tells it apart
push_front(log, event) == <<event>> \o log

\* self.events.push(event.clone())
push(log, event) == Append(log, event)

LiquidationsInFlight ==
    Cardinality({d \in Calls : /\ calls[d].op = "execute_liquidation"
                               /\ calls[d].pc \notin {"idle", "done"}})

\* execute_liquidation, entry to the await in is_liquidatable
execute_liquidation_enter(c, caller, vault_id, debt_to_cover) ==
    /\ FreeSlot(c)
    /\ LET rec == NewCall("execute_liquidation", vault_id, debt_to_cover, caller) IN
       calls' = [calls EXCEPT ![c] =
          IF ~is_whitelisted(caller, config)
          THEN Finish(rec, "Unauthorized liquidator")
          ELSE IF vault_id \notin DOMAIN vaults
          THEN Finish(rec, "Vault not found")
          ELSE Await([rec EXCEPT !.local = vaults[vault_id].collateral_amount],
                     "liq_eligibility", "fetch_prices", 0)]
    /\ UNCHANGED <<vaults, next_vault_id, config, events, price, now>>

\* the same, attempted while the log has room for its event
execute_liquidation_begin(c, caller, vault_id, debt_to_cover) ==
    /\ Len(events) + LiquidationsInFlight < MaxEvents
    /\ execute_liquidation_enter(c, caller, vault_id, debt_to_cover)

\* execute_liquidation, from is_liquidatable's price to the await in
\* get_collateral_value
execute_liquidation_eligibility(c) ==
    /\ ResumeAt(c, "liq_eligibility")
    /\ \E r \in FetchOutcomes(price) :
       LET rec == [Resumed(calls[c], r.ok) EXCEPT !.price_read = r.price]
           vault == vaults[rec.vault_id]
           liquidatable ==
               is_liquidatable([vault EXCEPT !.collateral_amount = rec.local], r.price)
       IN
       calls' = [calls EXCEPT ![c] =
          IF ~r.ok
          THEN Finish(rec, r.err)
          ELSE IF rejects_not_liquidatable(liquidatable)
          THEN Finish(rec, "Vault is not liquidatable")
          ELSE Await([rec EXCEPT !.eligible = liquidatable, !.local = 0],
                     "liq_value", "fetch_prices", 0)]
    /\ UNCHANGED <<vaults, next_vault_id, config, events, price, now>>

\* a faulty handler that instructs the collateral transfer before the iUSD
\* transfer; C31 tells it apart
execute_liquidation_value_collateral_first(c) ==
    /\ ResumeAt(c, "liq_value")
    /\ \E r \in FetchOutcomes(price) :
       LET rec == [Resumed(calls[c], r.ok) EXCEPT !.price_read = r.price]
           seize == collateral_to_seize(rec.amount, config.liquidation_bonus)
       IN
       calls' = [calls EXCEPT ![c] =
          IF ~r.ok
          THEN Finish(rec, r.err)
          ELSE IF invalid_liquidation_amount(seize, config)
          THEN Finish(rec, "Invalid liquidation amount")
          ELSE Await([rec EXCEPT !.collateral_to_seize = seize],
                     "liq_debt", "transfer_collateral", seize)]
    /\ UNCHANGED <<vaults, next_vault_id, config, events, price, now>>

\* execute_liquidation, from get_collateral_value's price to the await on
\* the iUSD transfer
execute_liquidation_value(c) ==
    /\ ResumeAt(c, "liq_value")
    /\ \E r \in FetchOutcomes(price) :
       LET rec == [Resumed(calls[c], r.ok) EXCEPT !.price_read = r.price]
           seize == collateral_to_seize(rec.amount, config.liquidation_bonus)
       IN
       calls' = [calls EXCEPT ![c] =
          IF ~r.ok
          THEN Finish(rec, r.err)
          ELSE IF invalid_liquidation_amount(seize, config)
          THEN Finish(rec, "Invalid liquidation amount")
          ELSE Await([rec EXCEPT !.collateral_to_seize = seize],
                     "liq_debt", "transfer_iusd", rec.amount)]
    /\ UNCHANGED <<vaults, next_vault_id, config, events, price, now>>

\* execute_liquidation, from the iUSD transfer's answer to the await on the
\* collateral transfer
execute_liquidation_debt(c) ==
    /\ ResumeAt(c, "liq_debt")
    /\ \E ok \in BOOLEAN :
       LET rec == Resumed(calls[c], ok) IN
       calls' = [calls EXCEPT ![c] =
          IF debt_transfer_aborts(ok)
          THEN Finish(rec, iusd_transfer_error)
          ELSE Await(rec, "liq_collateral", "transfer_collateral",
                     rec.collateral_to_seize)]
    /\ UNCHANGED <<vaults, next_vault_id, config, events, price, now>>

\* execute_liquidation, from the collateral transfer's answer to the return
execute_liquidation_collateral(c) ==
    /\ ResumeAt(c, "liq_collateral")
    /\ \E ok \in BOOLEAN :
       LET rec == Resumed(calls[c], ok)
           event == [vault_id |-> rec.vault_id,
                     debt_amount |-> rec.amount,
                     collateral_amount |-> rec.collateral_to_seize,
                     liquidator |-> rec.caller,
                     timestamp |-> now,
                     collateral_type |-> vaults[rec.vault_id].collateral_type]
       IN
       IF collateral_transfer_aborts(ok)
       THEN /\ calls' = [calls EXCEPT ![c] = Finish(rec, collateral_transfer_error)]
            /\ UNCHANGED events
       ELSE /\ events' = push(events, event)
            /\ calls' = [calls EXCEPT ![c] = [Finish(rec, "Ok") EXCEPT !.ret = <<event>>]]
    /\ UNCHANGED <<vaults, next_vault_id, config, price, now>>

\* a faulty admin check that lets every caller through; C21 tells it apart
is_admin_anyone(caller) == TRUE

\* the admin check of update_liquidation_config and add_liquidator
is_admin(caller) == caller = CanisterId

update_liquidation_config(c, caller, new_config) ==
    /\ FreeSlot(c)
    /\ LET rec == NewCall("update_liquidation_config", 0, 0, caller) IN
       IF ~is_admin(caller)
       THEN /\ calls' = [calls EXCEPT ![c] = Finish(rec, "Unauthorized")]
            /\ UNCHANGED config
       ELSE /\ config' = new_config
            /\ calls' = [calls EXCEPT ![c] = Finish(rec, "Ok")]
    /\ UNCHANGED <<vaults, next_vault_id, events, price, now>>

add_liquidator(c, caller, liquidator) ==
    /\ FreeSlot(c)
    /\ Len(config.liquidators) < MaxLiquidators
    /\ LET rec == NewCall("add_liquidator", 0, 0, caller) IN
       IF ~is_admin(caller)
       THEN /\ calls' = [calls EXCEPT ![c] = Finish(rec, "Unauthorized")]
            /\ UNCHANGED config
       ELSE /\ config' = [config EXCEPT !.liquidators = Append(@, liquidator)]
            /\ calls' = [calls EXCEPT ![c] = Finish(rec, "Ok")]
    /\ UNCHANGED <<vaults, next_vault_id, events, price, now>>

(* ------------------------------ system -------------------------------- *)

Next ==
    \/ Tick
    \/ PriceMove
    \/ \E c \in Calls : Return(c)
    \/ \E c \in Calls, o \in Owners, ct \in CollateralTypes : create_vault(c, o, ct)
    \/ \E c \in Calls, id \in VaultIds, a \in DepositAmounts : deposit_collateral(c, id, a)
    \/ \E c \in Calls, id \in VaultIds, a \in WithdrawAmounts : withdraw_collateral_begin(c, id, a)
    \/ \E c \in Calls : withdraw_collateral_price(c)
    \/ \E c \in Calls, id \in VaultIds, a \in MintAmounts : mint_iusd_begin(c, id, a)
    \/ \E c \in Calls : mint_iusd_price(c)
    \/ \E c \in Calls : mint_iusd_ledger(c)
    \/ \E c \in Calls, id \in VaultIds, a \in RepayAmounts : repay_debt_begin(c, id, a)
    \/ \E c \in Calls : repay_debt_ledger(c)
    \/ \E c \in Calls, who \in LiquidationCallers, id \in VaultIds, d \in DebtToCover :
          execute_liquidation_begin(c, who, id, d)
    \/ \E c \in Calls : execute_liquidation_eligibility(c)
    \/ \E c \in Calls : execute_liquidation_value(c)
    \/ \E c \in Calls : execute_liquidation_debt(c)
    \/ \E c \in Calls : execute_liquidation_collateral(c)
    \/ \E c \in Calls, who \in AdminCallers, cfg \in NewConfigs :
          update_liquidation_config(c, who, cfg)
    \/ \E c \in Calls, who \in AdminCallers : add_liquidator(c, who, "liquidator")

Spec == Init /\ [][Next]_vars

(* --------------------- the vault on its own --------------------------- *)
(* The VaultController endpoints alone, called on one ICP vault with a    *)
(* wider choice of amounts while the sources quote $10: the first         *)
(* deposit of 1_000_000_000 e8s is worth $100.                            *)

VaultPrice == 10

\* the last one is 2^128 - 5
VaultDeposits == {5, 10, 0 - 5}
VaultWithdrawals == {4}
\* the last one is 2^128 - 8
VaultMints == {7, 8, 80, 0 - 8}
VaultRepayments == {7}

\* mint_iusd is not called on a vault that owes more than this
MaxDebt == 8

VaultInit ==
    /\ vaults = <<>>
    /\ next_vault_id = 0
    /\ config = DefaultConfig
    /\ events = <<>>
    /\ calls = [c \in Calls |-> IdleCall]
    /\ price = VaultPrice
    /\ now = 0

VaultNext ==
    \/ \E c \in Calls : Return(c)
    \/ \E c \in Calls : create_vault(c, "owner", "ICP")
    \/ \E c \in Calls, a \in VaultDeposits : deposit_collateral(c, 0, a)
    \/ \E c \in Calls, a \in VaultWithdrawals : withdraw_collateral_begin(c, 0, a)
    \/ \E c \in Calls : withdraw_collateral_price(c)
    \/ \E c \in Calls, a \in VaultMints :
          /\ 0 \in DOMAIN vaults => vaults[0].debt_amount <= MaxDebt
          /\ mint_iusd_begin(c, 0, a)
    \/ \E c \in Calls : mint_iusd_price(c)
    \/ \E c \in Calls : mint_iusd_ledger(c)
    \/ \E c \in Calls, a \in VaultRepayments : repay_debt_begin(c, 0, a)
    \/ \E c \in Calls : repay_debt_ledger(c)

VaultSpec == VaultInit /\ [][VaultNext]_vars

(* ---------------------- minting up to the limit ----------------------- *)
(* One ICP vault whose owner deposits and mints amounts near the limit    *)
(* the LTV ratio sets, while the price moves.                             *)

\* 70 and 75 iUSD: below and at 75% of the value of 10 ICP at $10
MarginMints == {70, 75}

MarginNext ==
    \/ PriceMove
    \/ \E c \in Calls : Return(c)
    \/ \E c \in Calls : create_vault(c, "owner", "ICP")
    \/ \E c \in Calls, a \in DepositAmounts : deposit_collateral(c, 0, a)
    \/ \E c \in Calls, a \in MarginMints : mint_iusd_begin(c, 0, a)
    \/ \E c \in Calls : mint_iusd_price(c)
    \/ \E c \in Calls : mint_iusd_ledger(c)

MarginSpec == Init /\ [][MarginNext]_vars

(* ------------------------ several vaults ------------------------------ *)
(* create_vault called again and again, with the vault endpoints working  *)
(* on the vaults it has made; the price stays where it starts.            *)

\* create_vault is not called once this many vaults exist
MaxVaults == 2

\* the ids the callers pass: those create_vault can hand out, and one more
RegistryIds == 0..MaxVaults

RegistryNext ==
    \/ \E c \in Calls : Return(c)
    \/ \E c \in Calls :
          /\ next_vault_id < MaxVaults
          /\ create_vault_enter(c, "owner", "ICP")
    \/ \E c \in Calls, id \in RegistryIds : deposit_collateral(c, id, 10)
    \/ \E c \in Calls, id \in RegistryIds : withdraw_collateral_begin(c, id, 10)
    \/ \E c \in Calls : withdraw_collateral_price(c)
    \/ \E c \in Calls, id \in RegistryIds : mint_iusd_begin(c, id, 40)
    \/ \E c \in Calls : mint_iusd_price(c)
    \/ \E c \in Calls : mint_iusd_ledger(c)
    \/ \E c \in Calls, id \in RegistryIds : repay_debt_begin(c, id, 40)
    \/ \E c \in Calls : repay_debt_ledger(c)

RegistrySpec == Init /\ [][RegistryNext]_vars

(* ----------------------- the health factor ---------------------------- *)
(* get_health_factor asked of one ICP vault while its owner deposits,     *)
(* mints and repays and the price moves.                                  *)

HealthNext ==
    \/ PriceMove
    \/ \E c \in Calls : Return(c)
    \/ \E c \in Calls : create_vault(c, "owner", "ICP")
    \/ \E c \in Calls, a \in DepositAmounts : deposit_collateral(c, 0, a)
    \/ \E c \in Calls, a \in MintAmounts : mint_iusd_begin(c, 0, a)
    \/ \E c \in Calls : mint_iusd_price(c)
    \/ \E c \in Calls : mint_iusd_ledger(c)
    \/ \E c \in Calls, a \in RepayAmounts : repay_debt_begin(c, 0, a)
    \/ \E c \in Calls : repay_debt_ledger(c)
    \/ \E c \in Calls, id \in VaultIds : get_health_factor_begin(c, id)
    \/ \E c \in Calls : get_health_factor_price(c)

HealthSpec == Init /\ [][HealthNext]_vars

(* --------------------- liquidations on their own ---------------------- *)
(* The liquidation endpoints alone, on one ICP vault that holds 10 ICP    *)
(* and owes 40 iUSD, with the liquidation config installed, so that       *)
(* several attempts follow and overlap each other.                        *)

\* liquidations are not attempted once the log holds this many events
MaxLogged == 2

LiquidationInit ==
    /\ vaults = [id \in {0} |->
                   [owner |-> "owner", collateral_amount |-> 10,
                    collateral_type |-> "ICP", debt_amount |-> 40,
                    last_updated |-> 0]]
    /\ next_vault_id = 1
    /\ config \in NewConfigs
    /\ events = <<>>
    /\ calls = [c \in Calls |-> IdleCall]
    /\ price \in Prices
    /\ now = 0

LiquidationNext ==
    \/ Tick
    \/ PriceMove
    \/ \E c \in Calls : Return(c)
    \/ \E c \in Calls, who \in LiquidationCallers, id \in VaultIds, d \in DebtToCover :
          /\ Len(events) + LiquidationsInFlight < MaxLogged
          /\ execute_liquidation_enter(c, who, id, d)
    \/ \E c \in Calls : execute_liquidation_eligibility(c)
    \/ \E c \in Calls : execute_liquidation_value(c)
    \/ \E c \in Calls : execute_liquidation_debt(c)
    \/ \E c \in Calls : execute_liquidation_collateral(c)
    \/ \E c \in Calls, who \in AdminCallers :
          update_liquidation_config(c, who, DefaultConfig)

LiquidationSpec == LiquidationInit /\ [][LiquidationNext]_vars

(* ------------------- the ledger calls of one vault -------------------- *)
(* The operations that instruct a ledger (mint, repay, liquidation) on    *)
(* the vault of LiquidationInit, under the config installed there; the    *)
(* clock stands still.                                                    *)

LedgerNext ==
    \/ PriceMove
    \/ \E c \in Calls : Return(c)
    \/ \E c \in Calls, a \in MintAmounts : mint_iusd_begin(c, 0, a)
    \/ \E c \in Calls : mint_iusd_price(c)
    \/ \E c \in Calls : mint_iusd_ledger(c)
    \/ \E c \in Calls, a \in RepayAmounts : repay_debt_begin(c, 0, a)
    \/ \E c \in Calls : repay_debt_ledger(c)
    \/ \E c \in Calls, who \in LiquidationCallers, d \in DebtToCover :
          /\ Len(events) + LiquidationsInFlight < MaxLogged
          /\ execute_liquidation_enter(c, who, 0, d)
    \/ \E c \in Calls : execute_liquidation_eligibility(c)
    \/ \E c \in Calls : execute_liquidation_value(c)
    \/ \E c \in Calls : execute_liquidation_debt(c)
    \/ \E c \in Calls : execute_liquidation_collateral(c)

LedgerSpec == LiquidationInit /\ [][LedgerNext]_vars

(* ------------------ liquidation attempts to their end ----------------- *)
(* Attempts on the vault of LiquidationInit while the clock and the       *)
(* price stand still.  Every external call returns: the answer a          *)
(* suspended attempt waits for is delivered (execute_liquidation_step),   *)
(* although the answer of another call may be handled first, and every    *)
(* reply is handed to its caller (Return).                                *)

\* call c resumes from the external call it is suspended on
execute_liquidation_step(c) ==
    \/ execute_liquidation_eligibility(c)
    \/ execute_liquidation_value(c)
    \/ execute_liquidation_debt(c)
    \/ execute_liquidation_collateral(c)

LiveLiquidationNext ==
    \/ \E c \in Calls : Return(c)
    \/ \E c \in Calls, who \in LiquidationCallers, id \in VaultIds, d \in DebtToCover :
          /\ Len(events) + LiquidationsInFlight < MaxLogged
          /\ execute_liquidation_enter(c, who, id, d)
    \/ \E c \in Calls : execute_liquidation_step(c)

LiveLiquidationSpec ==
    /\ LiquidationInit
    /\ [][LiveLiquidationNext]_vars
    /\ \A c \in Calls : WF_vars(Return(c))
    /\ \A c \in Calls : SF_vars(execute_liquidation_step(c))

(* -------------------- is_liquidatable on its own ---------------------- *)
(* is_liquidatable as get_liquidatable_vaults and execute_liquidation     *)
(* call it, on one vault whose amounts are held at full width.            *)

\* n * 2^(16 * j) * a * b base units
Amount(n, j, a, b) ==
    u128_mul(u128_mul(u128_shl(u128_from(n), j), a).value, b).value

\* 10 ICP, 2^86 ICP and 2^85 ICP
WideCollaterals ==
    {Amount(10, 0, 10000, 10000), Amount(64, 5, 10000, 10000),
     Amount(32, 5, 10000, 10000)}

\* 40 iUSD, and 3.1 * 2^86 and 2^86 iUSD
WideDebts ==
    {Amount(40, 0, 10000, 10000), Amount(64, 5, 31000, 10000),
     Amount(64, 5, 10000, 10000)}

LiquidatableInit ==
    /\ \E collateral \in WideCollaterals, debt \in WideDebts :
          vaults = [id \in {0} |->
                      [owner |-> "owner", collateral_amount |-> collateral,
                       collateral_type |-> "ICP", debt_amount |-> debt,
                       last_updated |-> 0]]
    /\ next_vault_id = 1
    /\ config = DefaultConfig
    /\ events = <<>>
    /\ calls = [c \in Calls |-> IdleCall]
    /\ price \in Prices
    /\ now = 0

\* is_liquidatable, entry to the await in get_collateral_value
is_liquidatable_begin(c, vault_id) ==
    /\ FreeSlot(c)
    /\ LET rec == NewCall("is_liquidatable", vault_id, 0, "none") IN
       calls' = [calls EXCEPT ![c] =
          IF vault_id \notin DOMAIN vaults
          THEN Finish(rec, "Vault not found")
          ELSE Await(rec, "liquidatable_price", "fetch_prices", 0)]
    /\ UNCHANGED <<vaults, next_vault_id, config, events, price, now>>

\* is_liquidatable, from the price's arrival to the return
is_liquidatable_price(c) ==
    /\ ResumeAt(c, "liquidatable_price")
    /\ \E r \in FetchOutcomes(price) :
       LET rec == [Resumed(calls[c], r.ok) EXCEPT !.price_read = r.price]
           answer == is_liquidatable_u128(vaults[rec.vault_id], r.price)
       IN
       IF ~r.ok
       THEN calls' = [calls EXCEPT ![c] = Finish(rec, r.err)]
       ELSE \E mode \in OverflowModes(answer.overflow) :
            calls' = [calls EXCEPT ![c] =
               IF mode = "trap"
               THEN Finish(rec, Trap)
               ELSE [Finish(rec, "Ok") EXCEPT !.eligible = answer.liquidatable,
                                              !.ret = <<answer.liquidatable>>]]
    /\ UNCHANGED <<vaults, next_vault_id, config, events, price, now>>

LiquidatableNext ==
    \/ PriceMove
    \/ \E c \in Calls : Return(c)
    \/ \E c \in Calls, id \in VaultIds : is_liquidatable_begin(c, id)
    \/ \E c \in Calls : is_liquidatable_price(c)

LiquidatableSpec == LiquidatableInit /\ [][LiquidatableNext]_vars

(* ----------------------- the oracle on its own ------------------------ *)

OracleNext ==
    \/ \E c \in Calls : Return(c)
    \/ \E c \in Calls, answers \in SourceAnswers : get_price(c, answers)

OracleSpec == Init /\ [][OracleNext]_vars

(* --------------------- the oracle, handle by handle ------------------- *)
(* One get_price call after another.  Every response the system owes a    *)
(* call is delivered in the end, and so is every answer a caller waits    *)
(* for.                                                                   *)

\* a source is dead, or answers 100 or 104 stamped with the current time
LiveAnswers(source) ==
    {a \in StampedAnswers(source) : ~a.ok \/ a.price \in {100, 104}}

LiveSourceAnswers ==
    {<<a, b, k>> : a \in LiveAnswers("coingecko"), b \in LiveAnswers("binance"),
                   k \in LiveAnswers("kraken")}

LiveOracleNext ==
    \/ \E c \in Calls : Return(c)
    \/ \E c \in Calls, answers \in LiveSourceAnswers :
          /\ \A d \in Calls : calls[d].pc = "idle"
          /\ get_price_begin(c, answers)
    \/ \E c \in Calls : get_price_handle(c)

LiveOracleSpec ==
    /\ Init
    /\ [][LiveOracleNext]_vars
    /\ WF_vars(\E c \in Calls : Return(c))
    /\ WF_vars(\E c \in Calls : get_price_handle(c))

(* ------------------------- reading the calls -------------------------- *)

\* call c takes a step
Steps(c) == calls'[c] # calls[c]

\* a handler is entered in slot c for operation op
Enters(c, op) == calls[c].pc = "idle" /\ calls'[c].op = op

\* call c, suspended at pc, resumes
Resumes(c, pc) == calls[c].pc = pc /\ Steps(c)

\* the answer to the external call that c's step resumes from
AnswerOf(c) == calls'[c].ext[Len(calls[c].ext)].outcome

\* call c returns res in this step
Returns(c, res) == calls'[c].pc = "done" /\ calls'[c].result = res

\* the external calls of kind k that rec has issued
Issued(rec, k) == {i \in 1..Len(rec.ext) : rec.ext[i].kind = k}

LedgerKinds == {"mint", "burn", "transfer_iusd", "transfer_collateral"}

NoLedgerCall(rec) == \A k \in LedgerKinds : Issued(rec, k) = {}

\* the limit the LTV ratio puts on vault v's debt at price p
DebtLimit(v, p) ==
    max_debt(get_collateral_value(v.collateral_type, v.collateral_amount, p),
             collateral_ratios[v.collateral_type])

(* ------------------------------- C1 ----------------------------------- *)
(* C1: a mint succeeds only if debt_amount + amount <= max_debt, max_debt  *)
(* being collateral_value(current collateral, price read by the call) *   *)
(* ltv_bps / 10000; right after a successful mint the vault's debt is at  *)
(* most that max_debt; a mint that fails with "Mint would exceed maximum  *)
(* LTV" has issued no ledger mint.                                        *)
C1_MintWithinMaxDebt ==
    [][\A c \in Calls :
        /\ (Resumes(c, "mint_ledger") /\ Returns(c, "Ok")) =>
              LET before == vaults[calls[c].vault_id]
                  after == vaults'[calls[c].vault_id]
                  limit == DebtLimit(after, calls[c].price_read)
              IN /\ ~UGt(before.debt_amount + calls[c].amount, limit)
                 /\ ~UGt(after.debt_amount, limit)
        /\ Returns(c, "Mint would exceed maximum LTV") =>
              Issued(calls'[c], "mint") = {}
    ]_vars

(* ------------------------------- C2 ----------------------------------- *)
(* C2: with the price held constant, every write of mint, withdraw and    *)
(* repay is made against a vault for which the operation's preconditions  *)
(* hold at the moment of the write: mint, debt + amount <= max_debt of    *)
(* the current collateral; withdraw, amount <= current collateral and     *)
(* debt within max_debt of what remains; repay, amount <= current debt.   *)
PreconditionHoldsAtWrite(c) ==
    LET rec == calls[c]
        v == vaults[rec.vault_id]
    IN
    /\ (Resumes(c, "mint_ledger") /\ Returns(c, "Ok") /\ rec.price_read = price) =>
          ~UGt(v.debt_amount + rec.amount, DebtLimit(v, price))
    /\ (Resumes(c, "withdraw_price") /\ Returns(c, "Ok")) =>
          /\ rec.amount <= v.collateral_amount
          /\ ~UGt(v.debt_amount,
                  DebtLimit([v EXCEPT !.collateral_amount = @ - rec.amount], price))
    /\ (Resumes(c, "repay_ledger") /\ Returns(c, "Ok")) =>
          ~ULt(v.debt_amount, rec.amount)

C2_NoStaleCommit == [][\A c \in Calls : PreconditionHoldsAtWrite(c)]_vars

(* ------------------------------- C3 ----------------------------------- *)
(* C3: no liquidation attempt ends with its iUSD transfer done, its       *)
(* collateral transfer failed, and neither a compensating transfer back   *)
(* to the liquidator nor a pending/escrow record of the settlement.       *)
DebtCollectedCollateralFailed(rec) ==
    /\ rec.op = "execute_liquidation"
    /\ rec.pc = "done"
    /\ \E i \in Issued(rec, "transfer_iusd") : rec.ext[i].outcome = "ok"
    /\ \E i \in Issued(rec, "transfer_collateral") : rec.ext[i].outcome = "failed"

\* execute_liquidation issues no third transfer and keeps no pending record:
\* the calls it has made are all there is to find
Compensated(rec) == Issued(rec, "refund_iusd") # {} \/ Issued(rec, "escrow") # {}

C3_NoSilentHalfSettlement ==
    \A c \in Calls : DebtCollectedCollateralFailed(calls[c]) => Compensated(calls[c])

(* ------------------------------- C4 ----------------------------------- *)
(* C4: a successful liquidation lowers the vault's debt_amount by exactly *)
(* debt_to_cover and its collateral_amount by exactly collateral_to_seize,*)
(* appends exactly one event carrying those amounts, the vault id, the    *)
(* caller and the collateral type, and returns that event.                *)
C4_LiquidationCommits ==
    [][\A c \in Calls :
        (Resumes(c, "liq_collateral") /\ Returns(c, "Ok")) =>
           LET rec == calls[c]
               before == vaults[rec.vault_id]
               after == vaults'[rec.vault_id]
           IN
           /\ after.debt_amount = before.debt_amount - rec.amount
           /\ rec.collateral_to_seize.less = 0
           /\ after.collateral_amount =
                 before.collateral_amount - rec.collateral_to_seize.units
           /\ Len(events') = Len(events) + 1
           /\ SubSeq(events', 1, Len(events)) = events
           /\ LET e == events'[Len(events')] IN
              /\ e.vault_id = rec.vault_id
              /\ e.debt_amount = rec.amount
              /\ e.collateral_amount = rec.collateral_to_seize
              /\ e.liquidator = rec.caller
              /\ e.collateral_type = before.collateral_type
              /\ calls'[c].ret = <<e>>
    ]_vars

(* ------------------------------- C5 ----------------------------------- *)
(* C5: execute_liquidation entered by a caller that is not in             *)
(* config.liquidators returns "Unauthorized liquidator" at once: nothing  *)
(* is fetched, no ledger call is issued, no vault and no event changes,   *)
(* whatever the vault's state.                                            *)
C5_UnauthorizedStopsFirst ==
    [][\A c \in Calls :
        (/\ Enters(c, "execute_liquidation")
         /\ calls'[c].caller \notin Range(config.liquidators)) =>
           /\ Returns(c, "Unauthorized liquidator")
           /\ calls'[c].ext = <<>>
           /\ calls'[c].ret = <<>>
           /\ UNCHANGED <<vaults, events, config>>
    ]_vars

\* an unauthorized attempt on a vault that is liquidatable has been refused
C5_Witness ==
    \E c \in Calls :
        /\ calls[c].pc = "done"
        /\ calls[c].result = "Unauthorized liquidator"
        /\ calls[c].vault_id \in DOMAIN vaults
        /\ is_liquidatable(vaults[calls[c].vault_id], price)
        /\ "liquidator" \in Range(config.liquidators)

(* ------------------------------- C6 ----------------------------------- *)
(* C6: the attempt decides eligibility inside the call, at the price its  *)
(* own fetch returns: if the vault is not liquidatable at that price it   *)
(* returns "Vault is not liquidatable", having issued no ledger transfer  *)
(* and appended no event; and an event is appended only by an attempt     *)
(* whose own eligibility check returned true.                             *)
C6_EligibilityRechecked ==
    [][/\ \A c \in Calls :
            (Resumes(c, "liq_eligibility") /\ AnswerOf(c) = "ok") =>
               /\ calls'[c].price_read = price
               /\ ~is_liquidatable(vaults[calls[c].vault_id], price) =>
                     /\ Returns(c, "Vault is not liquidatable")
                     /\ NoLedgerCall(calls'[c])
                     /\ UNCHANGED <<vaults, events>>
       /\ events' # events =>
            \E c \in Calls : /\ Resumes(c, "liq_collateral")
                             /\ calls[c].eligible
                             /\ Cardinality(Issued(calls[c], "fetch_prices")) = 2
    ]_vars

(* ------------------------------- C7 ----------------------------------- *)
(* C7: if the iUSD transfer of an attempt fails the attempt returns that  *)
(* failure: no collateral transfer is issued, the vault is unchanged and  *)
(* no event is appended.  An attempt issues its collateral transfer only  *)
(* after its own iUSD transfer has returned success.                      *)
C7_DebtLegFirst ==
    [][\A c \in Calls :
        /\ (Resumes(c, "liq_debt") /\ AnswerOf(c) = "failed") =>
              /\ Returns(c, "Failed to transfer iUSD")
              /\ Issued(calls'[c], "transfer_collateral") = {}
              /\ calls'[c].ret = <<>>
              /\ UNCHANGED <<vaults, events>>
        /\ \A i \in Issued(calls'[c], "transfer_collateral") :
              /\ i > 1
              /\ calls'[c].ext[i - 1].kind = "transfer_iusd"
              /\ calls'[c].ext[i - 1].outcome = "ok"
    ]_vars

\* an attempt has ended on the failure of its iUSD transfer
C7_Witness ==
    \E c \in Calls :
        /\ calls[c].pc = "done"
        /\ calls[c].result = "Failed to transfer iUSD"
        /\ \E i \in Issued(calls[c], "transfer_iusd") :
              calls[c].ext[i].outcome = "failed" /\ calls[c].ext[i].amount > 0

(* ------------------------------- C8 ----------------------------------- *)
(* C8: the seizure value is debt_to_cover * (10000 + bonus) / 10000; an   *)
(* attempt that has its price returns "Invalid liquidation amount" if and *)
(* only if that value is below min_liquidation_amount or above            *)
(* max_liquidation_amount (a value equal to either bound is accepted),    *)
(* and then no ledger transfer is issued, no vault changes and no event   *)
(* is appended.                                                           *)
SeizureValue(debt_to_cover) ==
    (debt_to_cover * (10000 + config.liquidation_bonus)) \div 10000

OutOfBounds(value) ==
    value < config.min_liquidation_amount \/ value > config.max_liquidation_amount

C8_BoundsInclusive ==
    [][\A c \in Calls :
        (Resumes(c, "liq_value") /\ AnswerOf(c) = "ok") =>
           IF OutOfBounds(SeizureValue(calls[c].amount))
           THEN /\ Returns(c, "Invalid liquidation amount")
                /\ NoLedgerCall(calls'[c])
                /\ calls'[c].ret = <<>>
                /\ UNCHANGED <<vaults, events>>
           ELSE /\ calls'[c].pc = "liq_debt"
                /\ calls'[c].collateral_to_seize = Whole(SeizureValue(calls[c].amount))
    ]_vars

(* ------------------------------- C9 ----------------------------------- *)
(* C9: the collateral amount transferred to the liquidator and recorded   *)
(* in the event is the seizure value (the value the bounds check passed,  *)
(* kept in the attempt's collateral_to_seize) converted into the          *)
(* collateral asset's units at the price the attempt fetched and the      *)
(* asset's decimals.                                                      *)
ToCollateralUnits(value, collateral_type, p) ==
    IF decimals(collateral_type) >= IusdDecimals
    THEN (value * Pow10(decimals(collateral_type) - IusdDecimals)) \div p
    ELSE value \div (p * Pow10(IusdDecimals - decimals(collateral_type)))

C9_SeizureConverted ==
    [][\A c \in Calls :
        (Resumes(c, "liq_collateral") /\ Returns(c, "Ok")) =>
           LET rec == calls[c]
               ct == vaults[rec.vault_id].collateral_type
               owed == ToCollateralUnits(rec.collateral_to_seize.units, ct, rec.price_read)
               e == events'[Len(events')]
           IN /\ e.collateral_amount = Whole(owed)
              /\ \A i \in Issued(rec, "transfer_collateral") :
                    rec.ext[i].amount = Whole(owed)
    ]_vars

(* ------------------------------- C10 ---------------------------------- *)
(* C10: a withdrawal of more than the vault's collateral_amount does not  *)
(* succeed: it returns "Insufficient collateral balance" and changes      *)
(* nothing; a withdrawal succeeds only if the vault's debt is at most     *)
(* max_debt of the remaining collateral at the price the call read, so    *)
(* right after a successful withdrawal debt <= max_debt of the collateral *)
(* left.                                                                  *)
C10_WithdrawKeepsLtv ==
    [][\A c \in Calls :
        /\ (/\ Enters(c, "withdraw_collateral")
            /\ calls'[c].vault_id \in DOMAIN vaults
            /\ calls'[c].amount > vaults[calls'[c].vault_id].collateral_amount) =>
              /\ Returns(c, "Insufficient collateral balance")
              /\ UNCHANGED vaults
        /\ (Resumes(c, "withdraw_price") /\ Returns(c, "Ok")) =>
              LET before == vaults[calls[c].vault_id]
                  after == vaults'[calls[c].vault_id]
              IN
              /\ calls[c].amount <= before.collateral_amount
              /\ calls'[c].price_read = price
              /\ after.collateral_amount = before.collateral_amount - calls[c].amount
              /\ after.debt_amount = before.debt_amount
              /\ ~UGt(after.debt_amount, DebtLimit(after, price))
        /\ (Steps(c) /\ calls[c].op = "withdraw_collateral" /\ ~Returns(c, "Ok")) =>
              UNCHANGED vaults
    ]_vars

(* ------------------------------- C11 ---------------------------------- *)
(* C11: with a working oracle and amount <= collateral_amount, a          *)
(* withdrawal fails with "Withdrawal would exceed maximum LTV" exactly    *)
(* when the vault's debt exceeds max_debt of the remaining collateral;    *)
(* when the debt is within that max_debt the withdrawal succeeds and sets *)
(* collateral_amount to collateral_amount - amount.  Stated for a         *)
(* withdrawal during which the vault's collateral has not changed.        *)
C11_WithdrawExactlyWithinLtv ==
    [][\A c \in Calls :
        (/\ Resumes(c, "withdraw_price")
         /\ AnswerOf(c) = "ok"
         /\ calls[c].amount <= vaults[calls[c].vault_id].collateral_amount
         /\ calls[c].local = vaults[calls[c].vault_id].collateral_amount - calls[c].amount
         /\ vaults[calls[c].vault_id].debt_amount >= 0) =>
           LET before == vaults[calls[c].vault_id]
               after == vaults'[calls[c].vault_id]
               remaining == before.collateral_amount - calls[c].amount
               limit == DebtLimit([before EXCEPT !.collateral_amount = remaining],
                                  calls'[c].price_read)
           IN
           IF before.debt_amount > limit
           THEN /\ Returns(c, "Withdrawal would exceed maximum LTV")
                /\ after = before
           ELSE /\ Returns(c, "Ok")
                /\ after.collateral_amount = remaining
    ]_vars

(* ------------------------------- C12 ---------------------------------- *)
(* C12: mint_iusd asks the ledger to mint only after its LTV check has    *)
(* passed; the vault's debt changes only when that ledger call has        *)
(* returned success, and then it grows by exactly `amount` while the      *)
(* collateral stays; when the ledger call or the oracle fails the error   *)
(* is returned and the vault (debt, collateral, last_updated) is          *)
(* unchanged.                                                             *)
C12_MintLedgerThenDebt ==
    [][\A c \in Calls :
        LET rec == calls[c]
            before == vaults[rec.vault_id]
            after == vaults'[rec.vault_id]
        IN
        /\ Issued(calls'[c], "mint") \ Issued(rec, "mint") # {} =>
              /\ Resumes(c, "mint_price")
              /\ AnswerOf(c) = "ok"
              /\ ~mint_exceeds_ltv(before.debt_amount, rec.amount,
                                   max_debt(get_collateral_value(before.collateral_type,
                                                                 rec.local,
                                                                 calls'[c].price_read),
                                            collateral_ratios[before.collateral_type]))
        /\ (Steps(c) /\ rec.op = "mint_iusd" /\ vaults' # vaults) =>
              /\ Resumes(c, "mint_ledger")
              /\ AnswerOf(c) = "ok"
              /\ ~AddOverflows(before.debt_amount, rec.amount)
              /\ after.debt_amount = before.debt_amount + rec.amount
              /\ after.collateral_amount = before.collateral_amount
        /\ (Resumes(c, "mint_ledger") /\ AnswerOf(c) = "failed") =>
              /\ Returns(c, "Failed to mint iUSD")
              /\ UNCHANGED vaults
        /\ (Resumes(c, "mint_price") /\ AnswerOf(c) = "failed") =>
              /\ calls'[c].pc = "done"
              /\ calls'[c].result \in OracleErrors
              /\ Issued(calls'[c], "mint") = {}
              /\ UNCHANGED vaults
    ]_vars

(* ------------------------------- C13 ---------------------------------- *)
(* C13: repay_debt called with amount > debt_amount returns "Repayment    *)
(* amount exceeds debt" without calling the ledger; otherwise it asks the *)
(* ledger to burn `amount`; the debt changes only when that burn has      *)
(* returned success, and then it falls by exactly `amount`; a failed burn *)
(* leaves the debt unchanged.                                             *)
C13_RepayBurnThenDebt ==
    [][\A c \in Calls :
        LET rec == calls[c]
            id == calls'[c].vault_id
        IN
        /\ (Enters(c, "repay_debt") /\ id \in DOMAIN vaults) =>
              IF ULt(vaults[id].debt_amount, calls'[c].amount)
              THEN /\ Returns(c, "Repayment amount exceeds debt")
                   /\ calls'[c].ext = <<>>
                   /\ UNCHANGED vaults
              ELSE principal_from_text_ok(vaults[id].owner) =>
                      /\ calls'[c].pc = "repay_ledger"
                      /\ calls'[c].ext = <<[kind |-> "burn", amount |-> calls'[c].amount,
                                            outcome |-> "pending"]>>
                      /\ UNCHANGED vaults
        /\ (Steps(c) /\ rec.op = "repay_debt" /\ vaults' # vaults) =>
              /\ Resumes(c, "repay_ledger")
              /\ AnswerOf(c) = "ok"
              /\ ~SubOverflows(vaults[rec.vault_id].debt_amount, rec.amount)
              /\ vaults'[rec.vault_id].debt_amount =
                    vaults[rec.vault_id].debt_amount - rec.amount
              /\ vaults'[rec.vault_id].collateral_amount =
                    vaults[rec.vault_id].collateral_amount
        /\ (Resumes(c, "repay_ledger") /\ AnswerOf(c) = "failed") =>
              /\ Returns(c, "Failed to burn iUSD")
              /\ UNCHANGED vaults
    ]_vars

(* ------------------------------- C14 ---------------------------------- *)
(* C14: when deposit_collateral succeeds, collateral_amount afterwards is *)
(* collateral_amount before plus amount; it fails with "Amount below      *)
(* minimum collateral requirement" exactly when collateral_amount +       *)
(* amount is below the asset's configured minimum, and then               *)
(* collateral_amount is unchanged.                                        *)
C14_DepositAddsOrRefuses ==
    [][\A c \in Calls :
        (Enters(c, "deposit_collateral") /\ calls'[c].vault_id \in DOMAIN vaults) =>
           LET before == vaults[calls'[c].vault_id]
               after == vaults'[calls'[c].vault_id]
               amount == calls'[c].amount
               sum_below_minimum ==
                   /\ ~AddOverflows(before.collateral_amount, amount)
                   /\ before.collateral_amount + amount
                         < min_collateral[before.collateral_type]
           IN
           /\ Returns(c, "Ok") =>
                 /\ ~AddOverflows(before.collateral_amount, amount)
                 /\ after.collateral_amount = before.collateral_amount + amount
           /\ Returns(c, "Amount below minimum collateral requirement")
                 <=> sum_below_minimum
           /\ ~Returns(c, "Ok") => after = before
    ]_vars

(* ------------------------------- C15 ---------------------------------- *)
(* C15: a deposit, withdraw, mint, repay or liquidate call that fails     *)
(* (vault not found, a precondition, the oracle, the ledger) changes no   *)
(* field of the vault, last_updated included, at any of its steps; a      *)
(* deposit, withdraw, mint or repay that succeeds sets the vault's        *)
(* last_updated to the current time.                                      *)
VaultOps == {"deposit_collateral", "withdraw_collateral", "mint_iusd", "repay_debt"}

C15_FailureLeavesVault ==
    [][\A c \in Calls :
        (Steps(c) /\ calls'[c].op \in VaultOps \cup {"execute_liquidation"}) =>
           IF Returns(c, "Ok") /\ calls'[c].op \in VaultOps
           THEN /\ vaults'[calls'[c].vault_id].last_updated = now
                /\ \A id \in DOMAIN vaults \ {calls'[c].vault_id} :
                      vaults'[id] = vaults[id]
           ELSE UNCHANGED vaults
    ]_vars

\* a mint has failed at the ledger after the clock moved on, and the vault
\* still carries its earlier time stamp
C15_Witness ==
    \E c \in Calls :
        /\ calls[c].pc = "done"
        /\ calls[c].op = "mint_iusd"
        /\ calls[c].result = "Failed to mint iUSD"
        /\ now > vaults[calls[c].vault_id].last_updated

(* ------------------------------- C16 ---------------------------------- *)
(* C16: the price get_price returns is the median of the surviving quotes *)
(* (those received and not older than 300 seconds): the middle value of   *)
(* an odd number of them, the average of the two middle values of an even *)
(* number, whatever the order the sources answered in; quotes 100, 102,   *)
(* 98 give 100 and quotes 100, 110 give 105.                              *)

\* the answers that survive: received, and stamped within the last 300 s
Surviving(answers) ==
    {i \in 1..Len(answers) :
        /\ answers[i].ok
        /\ answers[i].timestamp <= SystemTimeNow
        /\ SystemTimeNow - answers[i].timestamp <= 300}

\* the k-th smallest price among the surviving answers, by counting
KthSmallest(answers, k) ==
    CHOOSE v \in {answers[i].price : i \in Surviving(answers)} :
        /\ Cardinality({i \in Surviving(answers) : answers[i].price < v}) < k
        /\ Cardinality({i \in Surviving(answers) : answers[i].price <= v}) >= k

\* the surviving prices are exactly these, each once
SurvivingAre(answers, ps) ==
    /\ Cardinality(Surviving(answers)) = Cardinality(ps)
    /\ {answers[i].price : i \in Surviving(answers)} = ps

C16_MedianOfSurvivors ==
    \A c \in Calls :
        (calls[c].op = "get_price" /\ calls[c].pc = "done" /\ calls[c].result = "Ok") =>
           LET answers == calls[c].quotes
               n == Cardinality(Surviving(answers))
               got == calls[c].ret[1].price
           IN
           /\ n % 2 = 1 => got = KthSmallest(answers, (n + 1) \div 2)
           /\ n % 2 = 0 =>
                 2 * got = KthSmallest(answers, n \div 2)
                           + KthSmallest(answers, n \div 2 + 1)
           /\ SurvivingAre(answers, {100, 102, 98}) => got = 100
           /\ SurvivingAre(answers, {100, 110}) => got = 105

\* the sources have answered 100, 102, 98 in that order and the call has
\* returned a price
C16_Witness ==
    \E c \in Calls :
        /\ calls[c].op = "get_price"
        /\ calls[c].pc = "done"
        /\ calls[c].result = "Ok"
        /\ Len(calls[c].quotes) = 3
        /\ \A i \in 1..3 : calls[c].quotes[i].ok
        /\ calls[c].quotes[1].timestamp = SystemTimeNow
        /\ <<calls[c].quotes[1].price, calls[c].quotes[2].price,
             calls[c].quotes[3].price>> = <<100, 102, 98>>

(* ------------------------------- C17 ---------------------------------- *)
(* C17: with the 5% threshold, fresh quotes 100 and 104 aggregate to a    *)
(* price and fresh quotes 100 and 106 fail with "Price deviation too high *)
(* between sources"; whenever the deviation |price - median| / median of  *)
(* a surviving quote exceeds 5% get_price fails with that error and       *)
(* returns no price.  Stated for answers stamped no later than the clock. *)
C17_DeviationRefused ==
    \A c \in Calls :
        (/\ calls[c].op = "get_price"
         /\ calls[c].pc = "done"
         /\ ~age_overflows(received(calls[c].quotes), SystemTimeNow)) =>
           LET answers == calls[c].quotes
               n == Cardinality(Surviving(answers))
               twice_median ==
                   IF n % 2 = 1 THEN 2 * KthSmallest(answers, (n + 1) \div 2)
                   ELSE KthSmallest(answers, n \div 2) + KthSmallest(answers, n \div 2 + 1)
               exceeds ==
                   \E i \in Surviving(answers) :
                       100 * Abs(2 * answers[i].price - twice_median) > 5 * twice_median
               refused == /\ calls[c].result = "Price deviation too high between sources"
                          /\ calls[c].ret = <<>>
           IN
           /\ SurvivingAre(answers, {100, 104}) => calls[c].result = "Ok"
           /\ SurvivingAre(answers, {100, 106}) => refused
           /\ (n >= 2 /\ exceeds) => refused

(* ------------------------------- C18 ---------------------------------- *)
(* C18: get_price returns a price only if at least 2 quotes are both      *)
(* received and at most 300 seconds old, the returned sources_used is the *)
(* number of such quotes, and with fewer than 2 of them (a single fresh   *)
(* quote, only stale ones, none at all) the call fails with "Insufficient *)
(* valid price sources"; a failed source does not fail the call.          *)

\* the answers received and at most 300 seconds old
Usable(answers) ==
    {i \in 1..Len(answers) :
        /\ answers[i].ok
        /\ SystemTimeNow - answers[i].timestamp <= 300}

C18_StaleAndFailedDropped ==
    \A c \in Calls :
        (calls[c].op = "get_price" /\ calls[c].pc = "done") =>
           LET answers == calls[c].quotes
               n == Cardinality(Usable(answers))
           IN
           /\ calls[c].result = "Ok" =>
                 /\ n >= 2
                 /\ calls[c].ret[1].sources_used = n
           /\ n < 2 =>
                 /\ calls[c].result = "Insufficient valid price sources"
                 /\ calls[c].ret = <<>>
           /\ calls[c].result # Trap

(* ------------------------------- C19 ---------------------------------- *)
(* C19, as stated: on a new ICP vault holding 1,000,000,000 base units    *)
(* with the oracle at $10, a mint of $8 fails with "Mint would exceed     *)
(* maximum LTV" and a mint of $7 passes the LTV check.  Amounts are in    *)
(* units of 10^8 base units, so the vault holds 10 and the mints are 8    *)
(* and 7.                                                                 *)

\* call c is at mint_iusd's LTV check in the scenario: the vault held
\* 1,000,000,000 base units at entry, owes nothing, and the oracle has
\* answered $10
ScenarioCheck(c) ==
    /\ Resumes(c, "mint_price")
    /\ AnswerOf(c) = "ok"
    /\ calls'[c].price_read = 10
    /\ calls[c].local = 10
    /\ vaults[calls[c].vault_id].debt_amount = 0

\* the LTV check lets call c through to the ledger's mint
PassesToLedger(c) ==
    /\ calls'[c].pc = "mint_ledger"
    /\ calls'[c].ext[Len(calls'[c].ext)] =
          [kind |-> "mint", amount |-> calls[c].amount, outcome |-> "pending"]

C20_MonotonicInPrice ==
    \A c \in Calls :
        (/\ calls[c].op = "is_liquidatable"
         /\ calls[c].pc = "done"
         /\ calls[c].result = "Ok"
         /\ calls[c].ret = <<TRUE>>) =>
           \A p1 \in Prices :
              p1 <= calls[c].price_read =>
                 is_liquidatable_u128(vaults[calls[c].vault_id], p1).liquidatable

(* ------------------------------- C21 ---------------------------------- *)
(* C21: update_liquidation_config and add_liquidator change the config    *)
(* only when the caller passes the admin check; a call by anyone else     *)
(* returns "Unauthorized" and leaves the config (bonus, bounds, whitelist)*)
(* as it was; no other operation changes the config; a liquidator added   *)
(* by the admin passes the whitelist check of the next liquidation        *)
(* attempt.                                                               *)
AdminOps == {"update_liquidation_config", "add_liquidator"}

C21_ConfigAdminOnly ==
    [][/\ config' # config =>
            \E c \in Calls : /\ calls[c].pc = "idle"
                             /\ calls'[c].op \in AdminOps
                             /\ calls'[c].caller = CanisterId
                             /\ Returns(c, "Ok")
       /\ \A c \in Calls :
            /\ (/\ calls[c].pc = "idle"
                /\ calls'[c].op \in AdminOps
                /\ calls'[c].caller # CanisterId) =>
                  /\ Returns(c, "Unauthorized")
                  /\ UNCHANGED config
            /\ (Enters(c, "add_liquidator") /\ calls'[c].caller = CanisterId) =>
                  /\ Returns(c, "Ok")
                  /\ config' = [config EXCEPT !.liquidators = Append(@, "liquidator")]
            /\ (Enters(c, "update_liquidation_config") /\ calls'[c].caller = CanisterId) =>
                  /\ Returns(c, "Ok")
                  /\ config' \in NewConfigs
            /\ (/\ Enters(c, "execute_liquidation")
                /\ calls'[c].caller \in Range(config.liquidators)) =>
                  ~Returns(c, "Unauthorized liquidator")
    ]_vars

\* the admin has added the liquidator to the default config, and the
\* liquidator's attempt has passed the whitelist check
C21_Witness ==
    /\ config = [DefaultConfig EXCEPT !.liquidators = <<"liquidator">>]
    /\ \E c \in Calls :
          /\ calls[c].op = "execute_liquidation"
          /\ calls[c].caller = "liquidator"
          /\ calls[c].pc = "liq_eligibility"

(* ------------------------------- C22 ---------------------------------- *)
(* C22: the liquidation event log is append-only: every step leaves it as *)
(* it was or adds one event at its end, the events already there keeping  *)
(* their index and contents; an event is added only by a liquidation      *)
(* attempt that returns success in that step, which returns that event;   *)
(* an attempt that ends in failure adds none.                             *)
C22_LogAppendOnly ==
    [][/\ \/ events' = events
          \/ /\ Len(events') = Len(events) + 1
             /\ SubSeq(events', 1, Len(events)) = events
       /\ events' # events =>
            \E c \in Calls : /\ Resumes(c, "liq_collateral")
                             /\ Returns(c, "Ok")
                             /\ calls'[c].ret = <<events'[Len(events')]>>
       /\ \A c \in Calls :
            (/\ Steps(c)
             /\ calls'[c].op = "execute_liquidation"
             /\ calls'[c].pc = "done") =>
               IF calls'[c].result = "Ok"
               THEN Len(events') = Len(events) + 1
               ELSE events' = events
    ]_vars

\* a second, different event has just been added behind the first and
\* returned to its liquidator
C22_Witness ==
    /\ Len(events) = 2
    /\ events[1] # events[2]
    /\ \E c \in Calls :
          /\ calls[c].op = "execute_liquidation"
          /\ calls[c].pc = "done"
          /\ calls[c].ret = <<events[2]>>

(* ------------------------------- C23 ---------------------------------- *)
(* C23: create_vault returns the next sequential id and makes a vault     *)
(* with zero collateral and zero debt under it: the ids handed out go up  *)
(* by one each time and none is handed out twice, a create never touches  *)
(* a vault that exists, and no operation ever removes a vault, whether it *)
(* holds anything or not.                                                 *)
C23_SequentialIdsNeverRemoved ==
    [][/\ DOMAIN vaults = 0..(next_vault_id - 1)
       /\ DOMAIN vaults \subseteq DOMAIN vaults'
       /\ next_vault_id' # next_vault_id =>
             \E c \in Calls : Enters(c, "create_vault")
       /\ \A c \in Calls :
             Enters(c, "create_vault") =>
                LET id == next_vault_id IN
                /\ Returns(c, "Ok")
                /\ calls'[c].ret = <<id>>
                /\ next_vault_id' = id + 1
                /\ id \notin DOMAIN vaults
                /\ DOMAIN vaults' = DOMAIN vaults \cup {id}
                /\ vaults'[id].collateral_amount = 0
                /\ vaults'[id].debt_amount = 0
                /\ vaults'[id].last_updated = now
                /\ \A other \in DOMAIN vaults : vaults'[other] = vaults[other]
    ]_vars

\* a second vault exists beside the first, which owes and holds nothing
\* again after a withdrawal of all its collateral
C23_Witness ==
    /\ next_vault_id = 2
    /\ vaults[0].collateral_amount = 0
    /\ vaults[0].debt_amount = 0
    /\ vaults[1].collateral_amount = 10
    /\ \E c \in Calls :
          /\ calls[c].op = "withdraw_collateral"
          /\ calls[c].vault_id = 0
          /\ calls[c].pc = "done"
          /\ calls[c].result = "Ok"

DebtLegFailed(rec) ==
    /\ rec.op = "execute_liquidation"
    /\ rec.pc = "done"
    /\ \E i \in Issued(rec, "transfer_iusd") : rec.ext[i].outcome = "failed"

FundsMoved(rec) == \E i \in 1..Len(rec.ext) :
    rec.ext[i].kind \in LedgerKinds /\ rec.ext[i].outcome = "ok"

C25_SettlementErrorsDiffer ==
    \A c \in Calls :
        LET rec == calls[c] IN
        (rec.op = "execute_liquidation" /\ rec.pc = "done") =>
           /\ DebtCollectedCollateralFailed(rec) <=> rec.result = "Failed to transfer collateral"
           /\ DebtLegFailed(rec) <=> rec.result = "Failed to transfer iUSD"
           /\ DebtCollectedCollateralFailed(rec) => FundsMoved(rec)
           /\ DebtLegFailed(rec) => ~FundsMoved(rec)

\* an attempt has ended on the failure of its collateral transfer, the
\* liquidator's iUSD taken
C25_Witness ==
    \E c \in Calls :
        /\ DebtCollectedCollateralFailed(calls[c])
        /\ calls[c].result = "Failed to transfer collateral"
        /\ FundsMoved(calls[c])

(* ------------------------------- C26 ---------------------------------- *)
(* C26: under any interleaving of deposit, withdraw, mint, repay and      *)
(* liquidate calls, two calls on one vault suspended at the same time     *)
(* included, no write takes more from a vault than it has: the            *)
(* subtraction `debt_amount -= amount` never goes below zero (it neither  *)
(* wraps nor panics), nor does the collateral write, so collateral_amount *)
(* and debt_amount never hold a value that wrapped below zero.            *)
C26_NoUnderflow ==
    [][/\ \A id \in DOMAIN vaults' :
             /\ vaults'[id].collateral_amount >= 0
             /\ vaults'[id].debt_amount >= 0
       /\ \A c \in Calls :
             LET rec == calls[c] IN
             /\ (Resumes(c, "repay_ledger") /\ AnswerOf(c) = "ok") =>
                   ~SubOverflows(vaults[rec.vault_id].debt_amount, rec.amount)
             /\ (Resumes(c, "withdraw_price") /\ Returns(c, "Ok")) =>
                   vaults'[rec.vault_id].collateral_amount >= 0
    ]_vars

(* ------------------------------- C27 ---------------------------------- *)
(* C27: no operation retries an external call: within one mint, repay or  *)
(* liquidation call each ledger instruction (mint, burn, iUSD transfer,   *)
(* collateral transfer) is issued at most once, and when an external call *)
(* fails the operation returns an error in the step that receives the     *)
(* failure, issuing no further external call.                             *)
C27_NoRetry ==
    [][\A c \in Calls :
        /\ \A k \in LedgerKinds : Cardinality(Issued(calls'[c], k)) <= 1
        /\ (/\ Steps(c)
            /\ calls[c].pc \notin {"idle", "done"}
            /\ AnswerOf(c) = "failed") =>
              /\ calls'[c].pc = "done"
              /\ calls'[c].result # "Ok"
              /\ Len(calls'[c].ext) = Len(calls[c].ext)
              /\ UNCHANGED <<vaults, events>>
    ]_vars

\* a repayment has ended on the failure of its one burn
C27_Witness ==
    \E c \in Calls :
        /\ calls[c].op = "repay_debt"
        /\ calls[c].pc = "done"
        /\ calls[c].result = "Failed to burn iUSD"
        /\ calls[c].ext = <<[kind |-> "burn", amount |-> calls[c].amount,
                              outcome |-> "failed"]>>

(* ------------------------------- C28 ---------------------------------- *)
(* C28: a dead price source does not block aggregation: every get_price   *)
(* call in progress returns in the end, and when two sources answer with  *)
(* fresh quotes that agree and the third never answers, what it returns   *)
(* is the price aggregated from the two.                                  *)
TwoAnswerOneDead(answers) ==
    /\ Cardinality(Surviving(answers)) = 2
    /\ \E i \in 1..Len(answers) : ~answers[i].ok
    /\ \A i, j \in Surviving(answers) :
          100 * Abs(answers[i].price - answers[j].price) <= 5 * answers[i].price

C29_MarginAfterMint ==
    [][\A c \in Calls :
        LET after == vaults'[calls[c].vault_id] IN
        (/\ Resumes(c, "mint_ledger")
         /\ Returns(c, "Ok")
         /\ calls[c].price_read = price
         /\ after.debt_amount >= 0
         /\ after.debt_amount <= DebtLimit(after, price)) =>
           ~is_liquidatable(after, price)
    ]_vars

(* ------------------------------- C30 ---------------------------------- *)
\* the collateral the first n events of the log record as seized from a vault
RECURSIVE SeizedTotal(_, _, _)
SeizedTotal(log, vault_id, n) ==
    IF n = 0 THEN 0
    ELSE SeizedTotal(log, vault_id, n - 1)
         + (IF log[n].vault_id = vault_id THEN log[n].collateral_amount.units ELSE 0)

(* C30: a liquidation never takes more than the vault holds: on every     *)
(* successful execute_liquidation, debt_to_cover is at most the vault's   *)
(* debt_amount and collateral_to_seize at most its collateral_amount,     *)
(* and the collateral the log records as seized from the vault, this      *)
(* liquidation included, is at most the collateral held in it.            *)
C30_NeverTakesMoreThanHeld ==
    [][\A c \in Calls :
        LET id == calls[c].vault_id IN
        (Resumes(c, "liq_collateral") /\ Returns(c, "Ok")) =>
          /\ calls[c].amount <= vaults[id].debt_amount
          /\ calls[c].collateral_to_seize.units <= vaults[id].collateral_amount
          /\ SeizedTotal(events', id, Len(events')) <= vaults[id].collateral_amount
    ]_vars

(* ------------------------------- C31 ---------------------------------- *)
\* the external calls of an attempt, in the order the handler issues them:
\* CheckEligibility, ComputeSeizure, SettleDebt, SettleCollateral
AttemptCalls == <<"fetch_prices", "fetch_prices", "transfer_iusd", "transfer_collateral">>

\* the await an attempt is suspended at after issuing its n-th external call
AttemptStages == <<"liq_eligibility", "liq_value", "liq_debt", "liq_collateral">>

InAttempt(c) ==
    calls[c].op = "execute_liquidation" /\ calls[c].pc \notin {"idle", "done"}

\* every step of an attempt keeps the order of the stages, ends the attempt
\* at its first failure, and ends it with one outcome
AttemptStep(c) ==
    LET rec == calls'[c]
        n == Len(rec.ext)
    IN
    /\ n <= Len(AttemptCalls)
    /\ n \in {Len(calls[c].ext), Len(calls[c].ext) + 1}
    /\ \A i \in 1..n : rec.ext[i].kind = AttemptCalls[i]
    /\ \A i \in 1..Len(calls[c].ext) :
          /\ rec.ext[i].kind = calls[c].ext[i].kind
          /\ calls[c].ext[i].outcome # "pending" => rec.ext[i] = calls[c].ext[i]
    /\ \A i \in 1..(n - 1) : rec.ext[i].outcome = "ok"
    /\ rec.pc # "done" => /\ n >= 1
                          /\ rec.pc = AttemptStages[n]
                          /\ rec.ext[n].outcome = "pending"
                          /\ UNCHANGED events
    /\ rec.pc = "done" =>
          /\ n = Len(calls[c].ext)
          /\ n >= 1 => rec.ext[n].outcome # "pending"
          /\ \/ /\ rec.result = "Ok"
                /\ n = Len(AttemptCalls)
                /\ rec.ext[n].outcome = "ok"
                /\ Len(rec.ret) = 1
                /\ events' = Append(events, rec.ret[1])
             \/ /\ rec.result \notin {"Ok", "none"}
                /\ rec.ret = <<>>
                /\ UNCHANGED events
    /\ (n >= 1 /\ rec.ext[n].outcome = "failed") =>
          rec.pc = "done" /\ rec.result # "Ok"

(* C31: a liquidation attempt is a finite state machine that terminates.  *)
(* Its steps issue the external calls in the order eligibility price,     *)
(* seizure price, iUSD transfer, collateral transfer, each after the one  *)
(* before it succeeded; the step that receives a failure ends the attempt *)
(* with an error and issues no further call; an attempt ends with exactly *)
(* one outcome, an error or the event it appended to the log, and after   *)
(* it the slot only hands the reply to the caller; and when every         *)
(* external call returns, every attempt under way reaches its end.        *)
C31_AttemptTerminates ==
    /\ [][\A c \in Calls :
            /\ (Steps(c) /\ calls'[c].op = "execute_liquidation") => AttemptStep(c)
            /\ (Steps(c) /\ calls[c].op = "execute_liquidation" /\ calls[c].pc = "done") =>
                  calls'[c] = IdleCall /\ UNCHANGED <<vaults, events, config>>
       ]_vars
    /\ \A c \in Calls :
          InAttempt(c) ~> (calls[c].op = "execute_liquidation" /\ calls[c].pc = "done")

\* an attempt has gone through every stage and returned its event while
\* another attempt is suspended on its collateral transfer
C31_Witness ==
    \E c, d \in Calls :
        /\ calls[c].pc = "done"
        /\ calls[c].result = "Ok"
        /\ Len(calls[c].ext) = Len(AttemptCalls)
        /\ calls[c].ret = <<events[Len(events)]>>
        /\ calls[d].op = "execute_liquidation"
        /\ calls[d].pc = "liq_collateral"

====
